---- MODULE Spec2Model ----
(* A model of docs/examples/python-client.py: the TodoMeClient class, its      *)
(* transport (_request), the anonymous register/login entry points, the        *)
(* credential refresh, the list_tasks query builder, the batch operations and  *)
(* undo.  The remote service and the HTTP library are the environment.         *)
(*                                                                             *)
(* Encoding of Python values                                                   *)
(*   None / a missing dict key   <<>>                                          *)
(*   a present value v           <<v>>                                         *)
(*   a dict with known keys      a record whose fields are so encoded          *)
(*   a str returned to a caller  [str |-> s]                                   *)
(*   f"Bearer {t}"               <<"Bearer", t>>                               *)
(*   a path or URL               a sequence of pieces; every "/" at an end of  *)
(*                               a path is a piece of its own, so that         *)
(*                               rstrip("/") and lstrip("/") act on pieces     *)
(* JSON null is not modelled: a key is either missing or holds a value.        *)
EXTENDS Integers, Sequences, FiniteSets, TLC

VARIABLES
    base_url,     \* self.base_url
    session,      \* self.session.headers
    pend,         \* per caller: the call it is blocked in, with the request it sent
    last,         \* the call that completed last: operation, response, outcome
    served,       \* service: per undo token, the redemptions it has answered
    issued,       \* service: the number of tokens it has issued on refresh
    numInvoked,   \* history: public operations invoked
    numSent,      \* history: HTTP requests put on the wire
    refreshed,    \* history: the token the latest successful refresh_token returned
    superseded    \* history: the tokens a successful refresh_token has replaced

vars == <<base_url, session, pend, last, served, issued, numInvoked, numSent,
          refreshed, superseded>>

------------------------------------------------------------------------------
(* Bounds *)

\* public operations invoked in one behaviour
MaxCalls == 2

\* longest task-id list given to a batch operation
MaxBatch == 2

------------------------------------------------------------------------------
(* Python values *)

None == <<>>

Some(v) == <<v>>

\* dict.get(key): the value, or None
DictGet(d, key) == d[key]

\* dict.get(key, default)
DictGetDefault(d, key, default) == IF d[key] = None THEN default ELSE d[key]

\* truth value of an Optional[str]: None and "" are false
TruthyStr(o) == o # None /\ o[1] # ""

\* truth value of an Optional[int]: None and 0 are false
TruthyInt(o) == o # None /\ o[1] # 0

\* truth value of an Optional[list]: None and [] are false
TruthyList(o) == o # None /\ o[1] # <<>>

\* truth value of an Optional[datetime]: only None is false
TruthyDatetime(o) == o # None

\* truth value of an Optional[bool]
TruthyBool(o) == o # None /\ o[1] = TRUE

\* sep.join(seq) for a list of str
RECURSIVE Join(_, _)
Join(sep, seq) ==
    IF seq = <<>> THEN ""
    ELSE IF Len(seq) = 1 THEN seq[1]
    ELSE seq[1] \o sep \o Join(sep, Tail(seq))

\* str.rstrip("/") on a sequence of pieces
RECURSIVE RStrip(_)
RStrip(s) ==
    IF s # <<>> /\ s[Len(s)] = "/" THEN RStrip(SubSeq(s, 1, Len(s) - 1)) ELSE s

\* str.lstrip("/") on a sequence of pieces
RECURSIVE LStrip(_)
LStrip(s) ==
    IF s # <<>> /\ s[1] = "/" THEN LStrip(Tail(s)) ELSE s

\* zero-padded decimal of width 2
Pad2(n) == IF n < 10 THEN "0" \o ToString(n) ELSE ToString(n)

\* zero-padded decimal of width 4
Pad4(n) ==
    IF n < 10 THEN "000" \o ToString(n)
    ELSE IF n < 100 THEN "00" \o ToString(n)
    ELSE IF n < 1000 THEN "0" \o ToString(n)
    ELSE ToString(n)

\* zero-padded decimal of width 6
Pad6(n) ==
    IF n < 100 THEN "00" \o Pad4(n)
    ELSE IF n < 1000 THEN "000" \o ToString(n)
    ELSE IF n < 10000 THEN "00" \o ToString(n)
    ELSE IF n < 100000 THEN "0" \o ToString(n)
    ELSE ToString(n)

\* datetime.isoformat() of a naive datetime
isoformat(dt) ==
    Pad4(dt.year) \o "-" \o Pad2(dt.month) \o "-" \o Pad2(dt.day) \o "T"
    \o Pad2(dt.hour) \o ":" \o Pad2(dt.minute) \o ":" \o Pad2(dt.second)
    \o (IF dt.microsecond = 0 THEN "" ELSE "." \o Pad6(dt.microsecond))

\* f"Bearer {token}"
Bearer(token) == <<"Bearer", token>>

------------------------------------------------------------------------------
(* Outcomes of a call, as its caller sees them *)

\* return value
Return(value) == [kind |-> "return", value |-> value]

\* an exception other than TodoMeError leaving the call
Raise(exc) == [kind |-> "raise", exc |-> exc]

\* class TodoMeError: the three attributes __init__ stores
TodoMeError(code, message, details) ==
    [kind |-> "raise", exc |-> "TodoMeError",
     code |-> code, message |-> message, details |-> details]

\* a str value handed to a caller
Str(s) == [str |-> s]

\* the literal {} used as the default of data.get("data", {})
EmptyData == [token |-> None, results |-> None]

\* the literal {} used as the default of data.get("error", {})
EmptyError == [code |-> None, message |-> None, details |-> None]

------------------------------------------------------------------------------
(* The client *)

\* TodoMeClient.__init__: the stored base URL and the session headers
Client(url, api_token) ==
    [base_url |-> RStrip(url),
     headers  |-> [Authorization |-> Bearer(api_token),
                   ContentType   |-> "application/json"]]

\* _request, line 46: url = f"{self.base_url}/{endpoint.lstrip('/')}"
Url(base, endpoint) == base \o <<"/">> \o LStrip(endpoint)

\* _request, line 47: the request session.request puts on the wire; the session
\* headers are merged into it when the call is made
SessionRequest(headers, base, method, endpoint, params, json) ==
    [method |-> method, url |-> Url(base, endpoint), headers |-> headers,
     params |-> params, json |-> json]

\* requests.post(url, json=...) of register and login: no session, no credential
AnonymousPost(url, json) ==
    [method |-> "POST", url |-> url,
     headers |-> [ContentType |-> "application/json"],
     params |-> None, json |-> Some(json)]

\* _request with the envelope's failure swallowed: {} where the code raises
_request_swallow(resp) ==
    IF resp.kind = "ConnectionError" THEN Raise("ConnectionError")
    ELSE IF resp.json = None THEN Raise("JSONDecodeError")
    ELSE LET data == resp.json[1] IN
         IF ~TruthyBool(DictGet(data, "success")) THEN Return(EmptyData)
         ELSE Return(DictGetDefault(data, "data", Some(EmptyData))[1])

\* _request deciding on the HTTP status instead of the envelope's flag
_request_status(resp) ==
    IF resp.kind = "ConnectionError" THEN Raise("ConnectionError")
    ELSE IF resp.json = None THEN Raise("JSONDecodeError")
    ELSE LET data  == resp.json[1]
             error == DictGetDefault(data, "error", Some(EmptyError))[1]
         IN  IF resp.status >= 400
             THEN TodoMeError(DictGetDefault(error, "code", Some("UNKNOWN_ERROR")),
                              DictGetDefault(error, "message", Some("Unknown error")),
                              DictGet(error, "details"))
             ELSE Return(DictGetDefault(data, "data", Some(EmptyData))[1])

\* _request, lines 47-58: what the call makes of the response
_request(resp) ==
    IF resp.kind = "ConnectionError" THEN Raise("ConnectionError")
    ELSE IF resp.json = None THEN Raise("JSONDecodeError")
    ELSE LET data == resp.json[1] IN
         IF ~TruthyBool(DictGet(data, "success"))
         THEN LET error == DictGetDefault(data, "error", Some(EmptyError))[1] IN
              TodoMeError(DictGetDefault(error, "code", Some("UNKNOWN_ERROR")),
                          DictGetDefault(error, "message", Some("Unknown error")),
                          DictGet(error, "details"))
         ELSE Return(DictGetDefault(data, "data", Some(EmptyData))[1])

\* register and login, lines 67-76 and 83-92: what they make of the response
AnonymousResult(url, resp) ==
    IF resp.kind = "ConnectionError" THEN Raise("ConnectionError")
    ELSE IF resp.json = None THEN Raise("JSONDecodeError")
    ELSE LET data == resp.json[1] IN
         IF ~TruthyBool(DictGet(data, "success"))
         THEN LET error == DictGetDefault(data, "error", Some(EmptyError))[1] IN
              TodoMeError(DictGet(error, "code"), DictGet(error, "message"), None)
         ELSE IF data["data"] = None THEN Raise("KeyError")
         ELSE IF data["data"][1]["token"] = None THEN Raise("KeyError")
         ELSE Return([client |-> Client(url, data["data"][1]["token"][1])])

\* register, lines 65-66
register_request(url, email, password) ==
    AnonymousPost(RStrip(url) \o <<"/", "auth", "/", "register">>,
                  [email |-> email, password |-> password])

\* login, lines 81-82
login_request(url, email, password) ==
    AnonymousPost(RStrip(url) \o <<"/", "auth", "/", "token">>,
                  [email |-> email, password |-> password])

\* refresh_token that never stores the new token
refresh_token_forget(headers, resp) ==
    LET r == _request(resp) IN
    IF r.kind = "raise" THEN [headers |-> headers, outcome |-> r]
    ELSE IF r.value["token"] = None THEN [headers |-> headers, outcome |-> Raise("KeyError")]
    ELSE [headers |-> headers, outcome |-> Return(Str(r.value["token"][1]))]

\* refresh_token that stores whatever token the body carries before the
\* envelope is examined
refresh_token_eager(headers, resp) ==
    LET r == _request(resp)
        t == IF resp.kind = "response" /\ resp.json # None /\ resp.json[1]["data"] # None
             THEN resp.json[1]["data"][1]["token"] ELSE None
        h == IF t = None THEN headers
             ELSE [headers EXCEPT !.Authorization = Bearer(t[1])]
    IN  IF r.kind = "raise" THEN [headers |-> h, outcome |-> r]
        ELSE IF r.value["token"] = None THEN [headers |-> h, outcome |-> Raise("KeyError")]
        ELSE [headers |-> h, outcome |-> Return(Str(r.value["token"][1]))]

\* refresh_token, lines 96-99: the session headers and the outcome after the
\* response; an exception leaves the headers as they were
refresh_token(headers, resp) ==
    LET r == _request(resp) IN
    IF r.kind = "raise" THEN [headers |-> headers, outcome |-> r]
    ELSE IF r.value["token"] = None THEN [headers |-> headers, outcome |-> Raise("KeyError")]
    ELSE [headers |-> [headers EXCEPT !.Authorization = Bearer(r.value["token"][1])],
          outcome |-> Return(Str(r.value["token"][1]))]

------------------------------------------------------------------------------
(* The public operations: the arguments each hands to _request *)

\* the arguments of one _request call
Args(method, endpoint, params, json) ==
    [method |-> method, endpoint |-> endpoint, params |-> params, json |-> json]

\* refresh_token, line 96
refresh_token_args == Args("POST", <<"/", "auth", "/", "refresh">>, None, None)

\* list_tasks, lines 117-134: the query parameters
list_tasks_params(a) ==
    [page         |-> Some(a.page),
     limit        |-> Some(a.limit),
     status       |-> IF TruthyStr(a.status) THEN a.status ELSE None,
     priority_min |-> IF TruthyInt(a.priority_min) THEN a.priority_min ELSE None,
     priority_max |-> IF TruthyInt(a.priority_max) THEN a.priority_max ELSE None,
     project_ids  |-> IF TruthyStr(a.project_id) THEN a.project_id ELSE None,
     tag_ids      |-> IF TruthyList(a.tag_ids) THEN Some(Join(",", a.tag_ids[1])) ELSE None,
     search       |-> IF TruthyStr(a.search) THEN a.search ELSE None,
     due_before   |-> IF TruthyDatetime(a.due_before)
                      THEN Some(isoformat(a.due_before[1])) ELSE None,
     due_after    |-> IF TruthyDatetime(a.due_after)
                      THEN Some(isoformat(a.due_after[1])) ELSE None]

\* list_tasks, line 136
list_tasks(a) == Args("GET", <<"/", "tasks">>, Some(list_tasks_params(a)), None)

\* get_today_tasks, line 140
get_today_tasks == Args("GET", <<"/", "tasks", "/", "today">>, None, None)

\* get_upcoming_tasks, line 144
get_upcoming_tasks(days) ==
    Args("GET", <<"/", "tasks", "/", "upcoming">>, Some([days |-> days]), None)

\* get_overdue_tasks, line 148
get_overdue_tasks == Args("GET", <<"/", "tasks", "/", "overdue">>, None, None)

\* get_task, line 152
get_task(task_id) == Args("GET", <<"/", "tasks", "/", task_id>>, None, None)

\* create_task, lines 164-175
create_task(a) ==
    Args("POST", <<"/", "tasks">>, None,
         Some([title       |-> Some(a.title),
               priority    |-> Some(a.priority),
               description |-> IF TruthyStr(a.description) THEN a.description ELSE None,
               dueDate     |-> IF TruthyDatetime(a.due_date)
                               THEN Some(isoformat(a.due_date[1])) ELSE None,
               projectId   |-> IF TruthyStr(a.project_id) THEN a.project_id ELSE None,
               tagIds      |-> IF TruthyList(a.tag_ids) THEN a.tag_ids ELSE None]))

\* create_task_natural, lines 179-183
create_task_natural(text) ==
    Args("POST", <<"/", "tasks?parse_natural_language=true">>, None,
         Some([input_text |-> text]))

\* update_task, line 187
update_task(task_id, updates) ==
    Args("PATCH", <<"/", "tasks", "/", task_id>>, None, Some(updates))

\* delete_task, line 191
delete_task(task_id) == Args("DELETE", <<"/", "tasks", "/", task_id>>, None, None)

\* complete_task, lines 195-199
complete_task(task_id) ==
    Args("PATCH", <<"/", "tasks", "/", task_id, "/", "status">>, None,
         Some([status |-> "completed"]))

\* uncomplete_task, lines 203-207
uncomplete_task(task_id) ==
    Args("PATCH", <<"/", "tasks", "/", task_id, "/", "status">>, None,
         Some([status |-> "pending"]))

\* the operations list with the ids in reverse order
BatchOperationsReversed(action, task_ids) ==
    [i \in 1..Len(task_ids) |->
        [action |-> action, taskId |-> task_ids[Len(task_ids) + 1 - i]]]

\* batch_complete and batch_delete, lines 213-216 and 221-224: the list
\* comprehension building one operation per id
BatchOperations(action, task_ids) ==
    [i \in 1..Len(task_ids) |-> [action |-> action, taskId |-> task_ids[i]]]

\* batch_complete, line 217
batch_complete(task_ids) ==
    Args("POST", <<"/", "batch">>, None,
         Some([operations |-> BatchOperations("complete", task_ids)]))

\* batch_delete, line 225
batch_delete(task_ids) ==
    Args("POST", <<"/", "batch">>, None,
         Some([operations |-> BatchOperations("delete", task_ids)]))

\* search, line 231
search(query, limit) ==
    Args("GET", <<"/", "search">>, Some([q |-> query, limit |-> limit]), None)

\* parse_natural, line 237
parse_natural(text) == Args("POST", <<"/", "parse">>, None, Some([text |-> text]))

\* undo, line 243
undo(undo_token) == Args("POST", <<"/", "undo", "/", undo_token>>, None, None)

\* list_projects, line 249
list_projects == Args("GET", <<"/", "projects">>, None, None)

\* create_project, lines 258-263
create_project(a) ==
    Args("POST", <<"/", "projects">>, None,
         Some([name        |-> Some(a.name),
               description |-> IF TruthyStr(a.description) THEN a.description ELSE None,
               parentId    |-> IF TruthyStr(a.parent_id) THEN a.parent_id ELSE None]))

\* list_tags, line 269
list_tags == Args("GET", <<"/", "tags">>, None, None)

------------------------------------------------------------------------------
(* The environment: callers, their inputs, the HTTP library and the service *)

\* the callers sharing the one client instance
Callers == {"c1", "c2"}

\* the token the client is constructed with; the service's are InitialToken + n
InitialToken == 0

BaseUrls == {<<"http://h", "/", "api">>, <<"http://h", "/", "api", "/">>}

TaskIds == {"t1", "t2"}

UndoTokens == {"u1", "u2"}

\* the id lists given to batch_complete and batch_delete: empty, repeated, ordered
BatchInputs == UNION {[1..n -> TaskIds] : n \in 0..MaxBatch}

Datetime(y, mo, d, h, mi, sec, us) ==
    [year |-> y, month |-> mo, day |-> d, hour |-> h, minute |-> mi,
     second |-> sec, microsecond |-> us]

\* every combination of the optional filters of list_tasks, each one omitted,
\* given a false value, or given a true value
ListFilters ==
    [status       : {None, Some(""), Some("pending")},
     priority_min : {None, Some(0), Some(1)},
     priority_max : {None, Some(0)},
     project_id   : {None, Some("p1")},
     tag_ids      : {None, Some(<<>>), Some(<<"a", "b">>), Some(<<"b", "a">>)},
     search       : {None, Some("")},
     due_before   : {None, Some(Datetime(2026, 1, 2, 3, 4, 5, 0))},
     due_after    : {None, Some(Datetime(987, 12, 31, 23, 59, 0, 1500))},
     page         : {1, 2},
     limit        : {20}]

\* list_tasks() with every argument at its default
NoFilter ==
    [status |-> None, priority_min |-> None, priority_max |-> None,
     project_id |-> None, tag_ids |-> None, search |-> None,
     due_before |-> None, due_after |-> None, page |-> 1, limit |-> 20]

\* the few filters used where list_tasks is one operation among all
FewFilters ==
    {NoFilter,
     [NoFilter EXCEPT !.priority_min = Some(0), !.tag_ids = Some(<<"a", "b">>)]}

CreateTaskInputs ==
    {[title |-> "x", description |-> None, priority |-> 3, due_date |-> None,
      project_id |-> None, tag_ids |-> None],
     [title |-> "x", description |-> Some(""), priority |-> 0,
      due_date |-> Some(Datetime(2026, 1, 2, 3, 4, 5, 0)),
      project_id |-> Some("p1"), tag_ids |-> Some(<<"a">>)]}

CreateProjectInputs ==
    {[name |-> "p", description |-> None, parent_id |-> Some("p1")]}

\* the response of the HTTP library: a parsed JSON object, a body that is not
\* JSON (response.json() raises), or no response at all
JsonResponse(status, body) == [kind |-> "response", status |-> status, json |-> Some(body)]

NotJson(status) == [kind |-> "response", status |-> status, json |-> None]

ConnectionError == [kind |-> "ConnectionError"]

Envelope(success, data, error) == [success |-> success, data |-> data, error |-> error]

Results(seq) == [token |-> None, results |-> Some(seq)]

TokenData(t) == [token |-> Some(t), results |-> None]

FullError ==
    [code |-> Some("VALIDATION_ERROR"), message |-> Some("bad"), details |-> Some("d")]

\* the responses used where callers interleave; t is the token the service
\* would issue next
FewResponses(t) ==
    {JsonResponse(200, Envelope(Some(TRUE), Some(Results(<<"r1", "r2">>)), None)),
     JsonResponse(500, Envelope(Some(TRUE), Some(Results(<<"r2", "r1">>)), None)),
     JsonResponse(200, Envelope(Some(TRUE), Some(TokenData(t)), None)),
     JsonResponse(200, Envelope(Some(TRUE), None, None)),
     JsonResponse(400, Envelope(Some(FALSE), None, Some(FullError))),
     JsonResponse(200, Envelope(None, None, None)),
     NotJson(502),
     ConnectionError}

\* the two responses used where the filters of list_tasks vary
QueryResponses ==
    {JsonResponse(200, Envelope(Some(TRUE), Some(Results(<<"r1", "r2">>)), None)),
     JsonResponse(400, Envelope(Some(FALSE), None, Some(FullError)))}

\* every envelope over the optional fields, under two HTTP statuses
AllResponses(t) ==
    {JsonResponse(st, Envelope(su, d, e)) :
        st \in {200, 500},
        su \in {None, Some(TRUE), Some(FALSE)},
        d  \in {None, Some(Results(<<"r1", "r2">>)), Some(TokenData(t))},
        e  \in {None, Some(FullError),
                Some([code |-> None, message |-> Some("m"), details |-> None])}}
    \cup {NotJson(502), ConnectionError}

\* the response carries a token in its data
HasToken(resp) ==
    /\ resp.kind = "response"
    /\ resp.json # None
    /\ resp.json[1].data # None
    /\ resp.json[1].data[1].token # None

\* the undo endpoint of a service that consumes a token on its first
\* redemption: the reversed entity the first time, an error afterwards
UndoReply(n) ==
    IF n = 0
    THEN JsonResponse(200, Envelope(Some(TRUE), Some(Results(<<"restored">>)), None))
    ELSE JsonResponse(404, Envelope(Some(FALSE), None,
             Some([code |-> Some("NOT_FOUND"), message |-> Some("Undo token not found"),
                   details |-> None])))

------------------------------------------------------------------------------
(* State *)

Idle == [op |-> "idle"]

\* the operations that are `return self._request(...)`
PlainOps ==
    {"list_tasks", "get_today_tasks", "get_upcoming_tasks", "get_overdue_tasks",
     "get_task", "create_task", "create_task_natural", "update_task", "delete_task",
     "complete_task", "uncomplete_task", "batch_complete", "batch_delete", "search",
     "parse_natural", "undo", "list_projects", "create_project", "list_tags"}

\* the operations that go through _request
TransportOps == PlainOps \cup {"refresh_token"}

Init ==
    /\ \E url \in BaseUrls :
          /\ base_url = Client(url, InitialToken).base_url
          /\ session = Client(url, InitialToken).headers
    /\ pend = [c \in Callers |-> Idle]
    /\ last = [op |-> "none"]
    /\ served = [t \in UndoTokens |-> 0]
    /\ issued = 0
    /\ numInvoked = 0
    /\ numSent = 0
    /\ refreshed = None
    /\ superseded = {}

------------------------------------------------------------------------------
(* Invoking an operation: the caller builds the request, the session attaches *)
(* the credential it holds at that moment, the request goes on the wire and   *)
(* the caller blocks until the response                                       *)

\* an operation entering _request, lines 44-47
Invoke(c, op, input, a) ==
    /\ pend[c] = Idle
    /\ numInvoked < MaxCalls
    /\ pend' = [pend EXCEPT ![c] =
                  [op |-> op, input |-> input,
                   request |-> SessionRequest(session, base_url, a.method,
                                              a.endpoint, a.params, a.json)]]
    /\ numInvoked' = numInvoked + 1
    /\ numSent' = numSent + 1
    /\ UNCHANGED <<base_url, session, last, served, issued, refreshed, superseded>>

\* register or login posting anonymously, lines 65-66 and 81-82
InvokeAnonymous(c, op, url, request) ==
    /\ pend[c] = Idle
    /\ numInvoked < MaxCalls
    /\ pend' = [pend EXCEPT ![c] = [op |-> op, input |-> url, request |-> request]]
    /\ numInvoked' = numInvoked + 1
    /\ numSent' = numSent + 1
    /\ UNCHANGED <<base_url, session, last, served, issued, refreshed, superseded>>

Register(c) ==
    \E url \in BaseUrls :
        InvokeAnonymous(c, "register", url, register_request(url, "e@x", "pw"))

Login(c) ==
    \E url \in BaseUrls :
        InvokeAnonymous(c, "login", url, login_request(url, "e@x", "pw"))

RefreshToken(c) == Invoke(c, "refresh_token", None, refresh_token_args)

ListTasks(c, filters) == \E a \in filters : Invoke(c, "list_tasks", a, list_tasks(a))

GetTodayTasks(c) == Invoke(c, "get_today_tasks", None, get_today_tasks)

GetUpcomingTasks(c) == Invoke(c, "get_upcoming_tasks", 7, get_upcoming_tasks(7))

GetOverdueTasks(c) == Invoke(c, "get_overdue_tasks", None, get_overdue_tasks)

GetTask(c) == Invoke(c, "get_task", "t1", get_task("t1"))

CreateTask(c) == \E a \in CreateTaskInputs : Invoke(c, "create_task", a, create_task(a))

CreateTaskNatural(c) ==
    Invoke(c, "create_task_natural", "Buy milk", create_task_natural("Buy milk"))

UpdateTask(c) ==
    Invoke(c, "update_task", "t1", update_task("t1", [title |-> "y"]))

DeleteTask(c) == Invoke(c, "delete_task", "t1", delete_task("t1"))

CompleteTask(c) == Invoke(c, "complete_task", "t1", complete_task("t1"))

UncompleteTask(c) == Invoke(c, "uncomplete_task", "t1", uncomplete_task("t1"))

BatchComplete(c) ==
    \E ids \in BatchInputs : Invoke(c, "batch_complete", ids, batch_complete(ids))

BatchDelete(c) ==
    \E ids \in BatchInputs : Invoke(c, "batch_delete", ids, batch_delete(ids))

Search(c) == Invoke(c, "search", "milk", search("milk", 20))

ParseNatural(c) == Invoke(c, "parse_natural", "Buy milk", parse_natural("Buy milk"))

Undo(c) == \E t \in UndoTokens : Invoke(c, "undo", t, undo(t))

ListProjects(c) == Invoke(c, "list_projects", None, list_projects)

CreateProject(c) ==
    \E a \in CreateProjectInputs : Invoke(c, "create_project", a, create_project(a))

ListTags(c) == Invoke(c, "list_tags", None, list_tags)

------------------------------------------------------------------------------
(* The response arriving: the call completes and its caller sees the outcome *)

\* the caller is idle again; `redeemed` is, for undo, the number of earlier
\* redemptions of the token the service had answered
Complete(c, resp, outcome, redeemed) ==
    /\ last' = [op |-> pend[c].op, response |-> resp, outcome |-> outcome,
                redeemed |-> redeemed]
    /\ pend' = [pend EXCEPT ![c] = Idle]

\* _request sending the request again when the call failed
RequestRetries(c, responses) ==
    /\ pend[c] # Idle
    /\ pend[c].op \in PlainOps \ {"undo"}
    /\ \E resp \in {r \in responses : ~HasToken(r)} :
          IF _request(resp).kind = "raise" /\ numSent <= MaxCalls
          THEN /\ numSent' = numSent + 1
               /\ UNCHANGED <<pend, last>>
          ELSE /\ Complete(c, resp, _request(resp), 0)
               /\ UNCHANGED numSent
    /\ UNCHANGED <<base_url, session, served, issued, numInvoked, refreshed, superseded>>

\* an operation that is `return self._request(...)` completing, lines 47-58
RequestReturns(c, responses) ==
    /\ pend[c] # Idle
    /\ pend[c].op \in PlainOps \ {"undo"}
    /\ \E resp \in {r \in responses : ~HasToken(r)} :
          Complete(c, resp, _request(resp), 0)
    /\ UNCHANGED <<base_url, session, served, issued, numInvoked, numSent,
                   refreshed, superseded>>

\* undo completing, lines 243 and 47-58, against the consuming service
UndoReturns(c) ==
    /\ pend[c] # Idle
    /\ pend[c].op = "undo"
    /\ LET t == pend[c].input IN
       \/ /\ Complete(c, UndoReply(served[t]), _request(UndoReply(served[t])), served[t])
          /\ served' = [served EXCEPT ![t] = @ + 1]
       \/ /\ Complete(c, ConnectionError, _request(ConnectionError), served[t])
          /\ UNCHANGED served
    /\ UNCHANGED <<base_url, session, issued, numInvoked, numSent, refreshed, superseded>>

\* refresh_token completing, lines 96-99
RefreshTokenReturns(c, responses) ==
    /\ pend[c] # Idle
    /\ pend[c].op = "refresh_token"
    /\ \E resp \in responses :
          LET r == refresh_token(session, resp) IN
          /\ Complete(c, resp, r.outcome, 0)
          /\ session' = r.headers
          /\ issued' = IF HasToken(resp) THEN issued + 1 ELSE issued
          /\ refreshed' = IF r.outcome.kind = "return"
                          THEN Some(r.outcome.value.str) ELSE refreshed
          /\ superseded' = IF r.outcome.kind = "return"
                           THEN superseded \cup {session.Authorization[2]}
                           ELSE superseded
    /\ UNCHANGED <<base_url, served, numInvoked, numSent>>

\* register or login completing, lines 67-76 and 83-92
AnonymousReturns(c, op, responses) ==
    /\ pend[c] # Idle
    /\ pend[c].op = op
    /\ \E resp \in responses :
          /\ Complete(c, resp, AnonymousResult(pend[c].input, resp), 0)
          /\ issued' = IF HasToken(resp) THEN issued + 1 ELSE issued
    /\ UNCHANGED <<base_url, session, served, numInvoked, numSent, refreshed, superseded>>

RegisterReturns(c, responses) == AnonymousReturns(c, "register", responses)

LoginReturns(c, responses) == AnonymousReturns(c, "login", responses)

------------------------------------------------------------------------------
(* Specifications *)

\* any operation invoked by caller c, list_tasks with a filter of `filters`
Invocation(c, filters) ==
    \/ Register(c)
    \/ Login(c)
    \/ RefreshToken(c)
    \/ ListTasks(c, filters)
    \/ GetTodayTasks(c)
    \/ GetUpcomingTasks(c)
    \/ GetOverdueTasks(c)
    \/ GetTask(c)
    \/ CreateTask(c)
    \/ CreateTaskNatural(c)
    \/ UpdateTask(c)
    \/ DeleteTask(c)
    \/ CompleteTask(c)
    \/ UncompleteTask(c)
    \/ BatchComplete(c)
    \/ BatchDelete(c)
    \/ Search(c)
    \/ ParseNatural(c)
    \/ Undo(c)
    \/ ListProjects(c)
    \/ CreateProject(c)
    \/ ListTags(c)

\* any pending call of caller c completing on a response of `responses`
Completion(c, responses) ==
    \/ RequestReturns(c, responses)
    \/ UndoReturns(c)
    \/ RefreshTokenReturns(c, responses)
    \/ RegisterReturns(c, responses)
    \/ LoginReturns(c, responses)

\* the client shared by the callers, their calls interleaving
Next ==
    \E c \in Callers :
        \/ Invocation(c, FewFilters)
        \/ Completion(c, FewResponses(InitialToken + issued + 1))

Spec == Init /\ [][Next]_vars

\* one caller, every envelope the service can send
NextEnvelope ==
    \/ Invocation("c1", FewFilters)
    \/ Completion("c1", AllResponses(InitialToken + issued + 1))

SpecEnvelope == Init /\ [][NextEnvelope]_vars

\* one caller listing tasks under every combination of filters
NextQuery ==
    \/ ListTasks("c1", ListFilters)
    \/ RequestReturns("c1", QueryResponses)

SpecQuery == Init /\ [][NextQuery]_vars

------------------------------------------------------------------------------
(* Properties *)

\* the response is a JSON object whose `success` is true
SuccessBody(resp) ==
    resp.kind = "response" /\ resp.json # None /\ resp.json[1].success = Some(TRUE)

\* the response is a JSON object whose `success` is false or missing
FailureBody(resp) ==
    resp.kind = "response" /\ resp.json # None /\ resp.json[1].success # Some(TRUE)

\* the `data` field of the body, or an empty mapping when it is missing
BodyData(resp) ==
    IF resp.json[1].data = None THEN EmptyData ELSE resp.json[1].data[1]

\* the `error` field of the body, or an empty mapping when it is missing
BodyError(resp) ==
    IF resp.json[1].error = None THEN EmptyError ELSE resp.json[1].error[1]

\* the error the envelope protocol prescribes for a failure body
PrescribedError(resp) ==
    TodoMeError(IF BodyError(resp).code = None THEN Some("UNKNOWN_ERROR")
                ELSE BodyError(resp).code,
                IF BodyError(resp).message = None THEN Some("Unknown error")
                ELSE BodyError(resp).message,
                BodyError(resp).details)

\* C1 as stated: on a body whose `success` is true, every operation routed
\* through _request returns exactly the body's `data` (an empty mapping when
\* it is missing), whatever the HTTP status.
C1_Original ==
    (last.op \in TransportOps /\ SuccessBody(last.response))
        => last.outcome = Return(BodyData(last.response))

\* C1 as amended: on a body whose `success` is true, every operation routed
\* through _request other than refresh_token returns exactly the body's `data`
\* (an empty mapping when it is missing), whatever the HTTP status;
\* refresh_token returns the `token` entry of that data and raises KeyError
\* when there is none; no operation raises TodoMeError.
C1_Amended ==
    /\ (last.op \in PlainOps /\ SuccessBody(last.response))
          => last.outcome = Return(BodyData(last.response))
    /\ (last.op = "refresh_token" /\ SuccessBody(last.response))
          => last.outcome =
                IF BodyData(last.response).token = None THEN Raise("KeyError")
                ELSE Return(Str(BodyData(last.response).token[1]))

\* an operation got a success body without `data` under HTTP status 500 and
\* returned the empty mapping
C1_Witness ==
    /\ last.op \in PlainOps
    /\ SuccessBody(last.response)
    /\ last.response.status = 500
    /\ last.response.json[1].data = None
    /\ last.outcome = Return(EmptyData)

\* C2 as stated: on a body whose `success` is false or missing, every
\* operation, register and login included, raises TodoMeError with code
\* error.code or "UNKNOWN_ERROR", message error.message or "Unknown error",
\* and details error.details; nothing is returned and no client is constructed.
C2_Claim ==
    (last.op # "none" /\ FailureBody(last.response))
        => last.outcome = PrescribedError(last.response)

ListCalls == {pend[c] : c \in {d \in Callers : pend[d] # Idle /\ pend[d].op = "list_tasks"}}

\* C4 as stated: the query builder tests presence: a supplied filter that is
\* false in Python (0, "", an empty list) still yields its query parameter.
C4_Claim ==
    \A call \in ListCalls :
        LET a == call.input
            q == call.request.params[1]
        IN  /\ a.status # None => q.status = a.status
            /\ a.priority_min # None => q.priority_min = a.priority_min
            /\ a.priority_max # None => q.priority_max = a.priority_max
            /\ a.search # None => q.search = a.search
            /\ a.tag_ids # None => q.tag_ids = Some(Join(",", a.tag_ids[1]))

\* C5 as stated: the query always has page and limit; it has a parameter only
\* for a supplied option (exactly page=1, limit=20 with no filter); a supplied
\* tag_ids list appears as one parameter, the ids joined by commas in order.
C5_Claim ==
    \A call \in ListCalls :
        LET a == call.input
            q == call.request.params[1]
        IN  /\ q.page = Some(a.page)
            /\ q.limit = Some(a.limit)
            /\ q.status # None => a.status # None
            /\ q.priority_min # None => a.priority_min # None
            /\ q.priority_max # None => a.priority_max # None
            /\ q.project_ids # None => a.project_id # None
            /\ q.tag_ids # None => a.tag_ids # None
            /\ q.search # None => a.search # None
            /\ q.due_before # None => a.due_before # None
            /\ q.due_after # None => a.due_after # None
            /\ a = NoFilter =>
                  q = [page |-> Some(1), limit |-> Some(20), status |-> None,
                       priority_min |-> None, priority_max |-> None,
                       project_ids |-> None, tag_ids |-> None, search |-> None,
                       due_before |-> None, due_after |-> None]
            /\ a.tag_ids # None => q.tag_ids = Some(Join(",", a.tag_ids[1]))

\* the batch calls in flight
BatchCalls ==
    {pend[c] : c \in {d \in Callers :
                        pend[d] # Idle /\ pend[d].op \in {"batch_complete", "batch_delete"}}}

BatchAction(op) == IF op = "batch_complete" THEN "complete" ELSE "delete"

\* C6: a batch call on a non-empty id list sends one POST /batch whose
\* operations list has one entry per id, the i-th being {action, taskId: ids[i]}
\* (order and duplicates kept), and returns the service's result payload as it
\* came.
C6_BatchOrder ==
    /\ \A call \in BatchCalls :
          call.input # <<>> =>
            /\ call.request.method = "POST"
            /\ call.request.url = base_url \o <<"/", "batch">>
            /\ call.request.params = None
            /\ DOMAIN call.request.json[1] = {"operations"}
            /\ Len(call.request.json[1].operations) = Len(call.input)
            /\ \A i \in 1..Len(call.input) :
                  call.request.json[1].operations[i] =
                      [action |-> BatchAction(call.op), taskId |-> call.input[i]]
    /\ (last.op \in {"batch_complete", "batch_delete"} /\ SuccessBody(last.response))
          => last.outcome = Return(BodyData(last.response))
    /\ numSent = numInvoked

\* a batch call on two different ids is in flight after a batch call returned
\* the service's results
C6_Witness ==
    /\ \E call \in BatchCalls : Len(call.input) = 2 /\ call.input[1] # call.input[2]
    /\ last.op \in {"batch_complete", "batch_delete"}
    /\ last.outcome = Return(Results(<<"r2", "r1">>))

\* C7 as stated: a batch call with an empty id list is rejected before
\* submission: no request is sent for it.
C7_Claim == \A call \in BatchCalls : call.input # <<>>

\* C8: every undo(t) sends POST /undo/{t}, also for a token already redeemed;
\* against the service that consumes a token on its first redemption, the
\* first answered redemption returns the payload and every later one raises
\* the TodoMeError the service reported.
C8_UndoSingleUse ==
    /\ \A c \in Callers :
          (pend[c] # Idle /\ pend[c].op = "undo") =>
            /\ pend[c].request.method = "POST"
            /\ pend[c].request.url = base_url \o <<"/", "undo", "/", pend[c].input>>
    /\ numSent = numInvoked
    /\ (last.op = "undo" /\ last.response.kind = "response") =>
          IF last.redeemed = 0
          THEN last.outcome = Return(BodyData(last.response))
          ELSE last.outcome = PrescribedError(last.response)
                 /\ last.outcome.code = Some("NOT_FOUND")

\* the second redemption of a token was sent and raised the service's error
C8_Witness ==
    /\ last.op = "undo"
    /\ last.redeemed = 1
    /\ last.outcome.kind = "raise"
    /\ last.outcome.exc = "TodoMeError"
    /\ numSent = 2

\* the response is a failure: none, not JSON, or a failure envelope
Failed(resp) == resp.kind = "ConnectionError" \/ resp.json = None \/ FailureBody(resp)

\* C9: every invocation of a public operation sends exactly one request, so
\* the requests sent equal the invocations; a call that failed has raised to
\* its caller and left no request of its own in flight.
C9_OneRequestPerCall ==
    /\ numSent = numInvoked
    /\ Cardinality({c \in Callers : pend[c] # Idle}) <= numSent
    /\ (last.op # "none" /\ Failed(last.response)) => last.outcome.kind = "raise"

\* two operations were invoked and the one that completed last failed in the
\* transport
C9_Witness ==
    /\ numInvoked = 2
    /\ last.op \in PlainOps
    /\ last.response = ConnectionError
    /\ last.outcome = Raise("ConnectionError")

\* C10: the session's credential changes only in the step in which a
\* refresh_token call returns, and then to the token it returns; a
\* refresh_token that gets a failure envelope, or a success envelope without a
\* token, raises.
C10_CredentialFrame ==
    [][/\ session' # session =>
             /\ \E c \in Callers :
                   pend[c] # Idle /\ pend[c].op = "refresh_token" /\ pend'[c] = Idle
             /\ last'.op = "refresh_token"
             /\ SuccessBody(last'.response)
             /\ last'.outcome.kind = "return"
             /\ session' = [session EXCEPT
                              !.Authorization = Bearer(last'.outcome.value.str)]
       /\ (/\ \E c \in Callers :
                 pend[c] # Idle /\ pend[c].op = "refresh_token" /\ pend'[c] = Idle
           /\ \/ Failed(last'.response)
              \/ BodyData(last'.response).token = None)
          => last'.outcome.kind = "raise"]_vars

\* a refresh_token got a failure envelope that carried a token, raised, and the
\* credential is still the initial one
C10_Witness ==
    /\ last.op = "refresh_token"
    /\ FailureBody(last.response)
    /\ HasToken(last.response)
    /\ last.outcome.kind = "raise"
    /\ session.Authorization = Bearer(InitialToken)

====
